---- MODULE Spec2Model ----
(***************************************************************************)
(* State machine of the fire-detection dashboard's Home component          *)
(* (src/unnamed/part_000, the service-aware page; src/app/page.tsx is the   *)
(* simulation-only variant of the same component).                          *)
(*                                                                         *)
(* React state hooks are the variables.  Every handler, timer callback and  *)
(* promise continuation is one action.  The "fire event window" effect is   *)
(* run by React after each commit whose dependencies changed and before     *)
(* any other event is handled: effectPending marks a commit whose effect    *)
(* has not run yet, and every other action waits for it.                    *)
(*                                                                         *)
(* Units: simulation time and the wall clock are in milliseconds,           *)
(* confidences are in percent (0.8 is 80).                                  *)
(***************************************************************************)
EXTENDS Integers, Sequences, FiniteSets

VARIABLES
  alerts,            \* useState<FireAlert[]>, most recent first
  cameras,           \* useState<SimulatedCamera[]>
  selectedAlert,     \* useState<FireAlert | null>
  responsesSent,     \* useState(0)
  simulationTime,    \* useState(0)
  backendConnected,  \* useState(false)
  useBackend,        \* useState(true)
  effectPending,     \* a commit changed the effect's dependencies; the effect has not run yet
  now,               \* the latest wall-clock reading (Date.now())
  scanPending,       \* scanAll() calls awaiting their answer
  detectPending,     \* detectFire() calls awaiting their answer: the alert each was opened with
  probeFailed,       \* history: some health probe has answered false
  mounted,           \* the component is mounted: its intervals run, its state exists
  scanRace           \* history: the cameras changed while a scan call was outstanding;
                     \* whether the last step applied that call's response, and to
                     \* which Fire cameras

vars == <<alerts, cameras, selectedAlert, responsesSent, simulationTime,
          backendConnected, useBackend, effectPending, now,
          scanPending, detectPending, probeFailed, mounted, scanRace>>

----------------------------------------------------------------------------
(* Bounds of the model *)

MaxTicks == 19
MaxAlerts == 2
MaxResponses == 2
MaxInFlight == 1

(* Program constants *)

TickMs == 1000
Tolerance == 1500

\* selectedAlert is <<>> for null and <<alert>> for a selected alert
NoAlert == <<>>

CameraIds == <<"cam-1", "cam-2", "cam-3", "cam-4", "cam-5">>

\* 0.8 + Math.random() * 0.2, in percent: a draw from [0.8, 1.0)
SimConfidences == {80}

\* what the detection service may answer for one camera of a scan:
\* {camera_id, status: string, confidence: float}
ScanStatuses == {"normal", "fire", "smoke"}
ScanConfidences == {90}

\* the cameras a scan response may mention (every other camera is one the
\* response omits)
ScanCameras == {"cam-1"}

\* how long after the last clock tick a pass of the effect may read Date.now()
ElapsedChoices == {0, 1}

\* result.accuracy of a detect call
DetectAccuracies == {95}

\* what a detect call that ends with outcome hands back
DetectAnswers(outcome) == IF outcome = "ok" THEN DetectAccuracies ELSE {0}

\* how an awaited service call ends: a result, no result (null), or a rejection
ServiceOutcomes == {"ok", "none", "throw"}

\* an alert id that no alert of the ledger has
UnknownId == <<0, "none">>

----------------------------------------------------------------------------
(* Array helpers *)

Range(s) == {s[i] : i \in DOMAIN s}

Abs(x) == IF x < 0 THEN -x ELSE x

\* the camera list of the mount effect, with the given schedule
MakeCameras(schedule) ==
  [i \in DOMAIN CameraIds |->
     [id |-> CameraIds[i], status |-> "normal", confidence |-> 0,
      fireEventTimes |-> schedule[i]]]

initialCameras ==
  MakeCameras(<< <<15000, 45000>>, <<25000, 55000>>, <<35000, 65000>>,
                 <<20000, 50000>>, <<40000, 70000>> >>)

\* the camera list with the schedule of the duplicate-window scenario: cam-1
\* has two offsets inside one tolerance window (15000 and 15800), and cam-2's
\* first window is cam-1's
scenarioCameras ==
  MakeCameras(<< <<15000, 15800>>, <<15000, 55000>>, <<35000, 65000>>,
                 <<20000, 50000>>, <<40000, 70000>> >>)

----------------------------------------------------------------------------
(* History of the outstanding scan call *)

NoRace == [changed |-> {}, applied |-> FALSE, fireBefore |-> {}]

\* the ids of the cameras that are Fire
FireIds == {cameras[j].id : j \in {k \in DOMAIN cameras : cameras[k].status = "fire"}}

\* the ids of the cameras the step changes
ChangedIds == {cameras[j].id : j \in {k \in DOMAIN cameras : cameras'[k] # cameras[k]}}

\* a step other than a scan's: while a scan call is outstanding, the cameras
\* the step changes are remembered
NoteScanRace ==
  scanRace' = IF scanPending > 0
                THEN [NoRace EXCEPT !.changed = scanRace.changed \cup ChangedIds]
                ELSE NoRace

----------------------------------------------------------------------------
(* The fire-event-window effect *)

\* the window test with twice the tolerance
isFireTimeWindow_DoubleTolerance(camera, t) ==
  \E i \in DOMAIN camera.fireEventTimes :
     Abs(t - camera.fireEventTimes[i]) < 2 * Tolerance

isFireTimeWindow(camera, t) ==
  \E i \in DOMAIN camera.fireEventTimes :
     Abs(t - camera.fireEventTimes[i]) < Tolerance

\* the guard with the alert status inverted
hasExistingAlert_Inverted(als, camera) ==
  \E i \in DOMAIN als : als[i].cameraId = camera.id /\ als[i].status = "resolved"

hasExistingAlert(als, camera) ==
  \E i \in DOMAIN als : als[i].cameraId = camera.id /\ als[i].status = "active"

\* the conditions without the existing-alert guard
ShouldFire_NoAlertGuard(camera, als, t) ==
  isFireTimeWindow(camera, t) /\ camera.status = "normal"

\* the two nested conditions under which the effect raises an alert for camera
ShouldFire(camera, als, t) ==
  /\ isFireTimeWindow(camera, t) /\ camera.status = "normal"
  /\ ~hasExistingAlert(als, camera)

\* the indices of the cameras the pass raises an alert for
FiringIdx(cams, als, t) == {i \in DOMAIN cams : ShouldFire(cams[i], als, t)}

newAlert(camera, confidence, nowv) ==
  [id |-> <<nowv, camera.id>>, timestamp |-> nowv, confidence |-> confidence,
   cameraId |-> camera.id, status |-> "active"]

\* setCameras((prev) => prev.map((c) => (c.id === camera.id ? {...c, status: "fire", confidence} : c)))
SetFire(prev, camera, confidence) ==
  [j \in DOMAIN prev |->
     IF prev[j].id = camera.id
       THEN [prev[j] EXCEPT !.status = "fire", !.confidence = confidence]
       ELSE prev[j]]

\* a new fire that re-activates the camera's resolved alert instead of adding one
PushAlert_Reactivate(prev, alert) ==
  IF \E i \in DOMAIN prev : prev[i].cameraId = alert.cameraId /\ prev[i].status = "resolved"
    THEN [i \in DOMAIN prev |->
            IF prev[i].cameraId = alert.cameraId
              THEN [prev[i] EXCEPT !.status = "active"] ELSE prev[i]]
    ELSE <<alert>> \o prev

\* the new alert put at the tail
PushAlert_AtTail(prev, alert) == prev \o <<alert>>

\* setAlerts((prev) => [newAlert, ...prev])
PushAlert(prev, alert) == <<alert>> \o prev

\* cameras.forEach from index i on: cams and als are the rendered values the
\* closure reads, acc holds the queued functional updates applied so far,
\* rnd[i] is the Math.random() draw for camera i
RECURSIVE forEachCamera(_, _, _, _, _, _, _)
forEachCamera(i, cams, als, t, nowv, rnd, acc) ==
  IF i > Len(cams) THEN acc
  ELSE IF ShouldFire(cams[i], als, t)
    THEN forEachCamera(i + 1, cams, als, t, nowv, rnd,
           [cameras |-> SetFire(acc.cameras, cams[i], rnd[i]),
            alerts |-> PushAlert(acc.alerts, newAlert(cams[i], rnd[i], nowv))])
    ELSE forEachCamera(i + 1, cams, als, t, nowv, rnd, acc)

\* Simulated is the active path unless the service is reachable and preferred
Simulated == ~backendConnected \/ ~useBackend

DepsChanged ==
  <<simulationTime', cameras', alerts', backendConnected', useBackend'>>
    # <<simulationTime, cameras, alerts, backendConnected, useBackend>>

\* the wall-clock readings Date.now() may return: the clock never runs
\* backwards
ClockReadings == {w \in {simulationTime + e : e \in ElapsedChoices} : w >= now}

FireWindowEffect ==
  /\ effectPending
  /\ IF Simulated /\ FiringIdx(cameras, alerts, simulationTime) # {}
       THEN \E rnd \in [FiringIdx(cameras, alerts, simulationTime) -> SimConfidences],
               nowv \in ClockReadings :
              LET r == forEachCamera(1, cameras, alerts, simulationTime, nowv, rnd,
                                     [cameras |-> cameras, alerts |-> alerts])
              IN /\ Len(r.alerts) <= MaxAlerts
                 /\ cameras' = r.cameras
                 /\ alerts' = r.alerts
                 /\ now' = nowv
       ELSE UNCHANGED <<cameras, alerts, now>>
  /\ UNCHANGED <<selectedAlert, responsesSent, simulationTime, backendConnected,
                 useBackend, scanPending, detectPending, probeFailed>>
  /\ effectPending' = DepsChanged
  /\ NoteScanRace
  /\ mounted /\ UNCHANGED mounted

----------------------------------------------------------------------------
(* Timers *)

\* a clock whose interval is not cleared by the teardown
Tick_NoCleanup ==
  /\ ~effectPending
  /\ simulationTime < MaxTicks * TickMs
  /\ simulationTime' = simulationTime + TickMs
  /\ now' = simulationTime + TickMs
  /\ UNCHANGED <<alerts, cameras, selectedAlert, responsesSent, backendConnected,
                 useBackend, scanPending, detectPending, probeFailed, mounted>>
  /\ effectPending' = DepsChanged
  /\ NoteScanRace

\* a clock that advances by two increments
Tick_DoubleStep ==
  /\ ~effectPending
  /\ simulationTime < MaxTicks * TickMs
  /\ simulationTime' = simulationTime + 2 * TickMs
  /\ now' = simulationTime + 2 * TickMs
  /\ UNCHANGED <<alerts, cameras, selectedAlert, responsesSent, backendConnected,
                 useBackend, scanPending, detectPending, probeFailed>>
  /\ effectPending' = DepsChanged
  /\ NoteScanRace
  /\ mounted /\ UNCHANGED mounted

\* setSimulationTime((prev) => prev + 1000), fired by the 1000 ms interval;
\* the wall clock at the k-th firing is k * 1000 ms after the mount
Tick ==
  /\ ~effectPending
  /\ simulationTime < MaxTicks * TickMs
  /\ simulationTime' = simulationTime + TickMs
  /\ now' = simulationTime + TickMs
  /\ UNCHANGED <<alerts, cameras, selectedAlert, responsesSent, backendConnected,
                 useBackend, scanPending, detectPending, probeFailed>>
  /\ effectPending' = DepsChanged
  /\ NoteScanRace
  /\ mounted /\ UNCHANGED mounted

\* a probe whose false answer is remembered as reachable
checkBackend_Negated(isHealthy) ==
  /\ ~effectPending
  /\ backendConnected' = ~isHealthy
  /\ probeFailed' = (probeFailed \/ ~isHealthy)
  /\ UNCHANGED <<alerts, cameras, selectedAlert, responsesSent, simulationTime,
                 useBackend, now, scanPending, detectPending>>
  /\ effectPending' = DepsChanged
  /\ NoteScanRace
  /\ mounted /\ UNCHANGED mounted

\* a probe whose false answer also puts the Fire cameras back to Normal
checkBackend_ResetsCameras(isHealthy) ==
  /\ ~effectPending
  /\ backendConnected' = isHealthy
  /\ cameras' = IF isHealthy THEN cameras
                 ELSE [j \in DOMAIN cameras |->
                         IF cameras[j].status = "fire"
                           THEN [cameras[j] EXCEPT !.status = "normal", !.confidence = 0]
                           ELSE cameras[j]]
  /\ probeFailed' = (probeFailed \/ ~isHealthy)
  /\ UNCHANGED <<alerts, selectedAlert, responsesSent, simulationTime,
                 useBackend, now, scanPending, detectPending>>
  /\ effectPending' = DepsChanged
  /\ NoteScanRace
  /\ mounted /\ UNCHANGED mounted

\* checkBackend, called on mount and by the 5000 ms interval, when its
\* checkHealth() is answered: setBackendConnected(isHealthy)
checkBackend(isHealthy) ==
  /\ ~effectPending
  /\ backendConnected' = isHealthy
  /\ probeFailed' = (probeFailed \/ ~isHealthy)
  /\ UNCHANGED <<alerts, cameras, selectedAlert, responsesSent, simulationTime,
                 useBackend, now, scanPending, detectPending>>
  /\ effectPending' = DepsChanged
  /\ NoteScanRace
  /\ mounted /\ UNCHANGED mounted

----------------------------------------------------------------------------
(* Scan *)

\* the responses a scan may carry: a status and confidence for some cameras
ScanResults ==
  UNION {[S -> ScanStatuses \X ScanConfidences] : S \in SUBSET ScanCameras}

\* what a scan call that ends with outcome hands back
ScanAnswers(outcome) == IF outcome = "ok" THEN ScanResults ELSE {<<>>}

\* a response whose absent cameras are put back to Normal
ApplyScan_AbsentToNormal(prev, result) ==
  [j \in DOMAIN prev |->
     IF prev[j].id \in DOMAIN result
       THEN [prev[j] EXCEPT !.status = result[prev[j].id][1],
                            !.confidence = result[prev[j].id][2]]
       ELSE [prev[j] EXCEPT !.status = "normal", !.confidence = 0]]

\* prev.map((camera) => { const backendStatus = result.cameras.find(...); ... })
ApplyScan(prev, result) ==
  [j \in DOMAIN prev |->
     IF prev[j].id \in DOMAIN result
       THEN [prev[j] EXCEPT !.status = result[prev[j].id][1],
                            !.confidence = result[prev[j].id][2]]
       ELSE prev[j]]

\* performBackendScan up to its await
performBackendScan ==
  /\ ~effectPending
  /\ IF ~backendConnected
       THEN /\ useBackend' = FALSE
            /\ UNCHANGED scanPending
       ELSE /\ scanPending + Cardinality(detectPending) < MaxInFlight
            /\ scanPending' = scanPending + 1
            /\ UNCHANGED useBackend
  /\ UNCHANGED <<alerts, cameras, selectedAlert, responsesSent, simulationTime,
                 backendConnected, now, detectPending, probeFailed>>
  /\ effectPending' = DepsChanged
  /\ scanRace' = NoRace
  /\ mounted /\ UNCHANGED mounted

\* a scan whose rejection is only logged
ScanDone_LogOnly(outcome, result) ==
  /\ ~effectPending
  /\ scanPending > 0
  /\ scanPending' = scanPending - 1
  /\ cameras' = IF outcome = "ok" THEN ApplyScan(cameras, result) ELSE cameras
  /\ UNCHANGED <<alerts, selectedAlert, responsesSent, simulationTime, useBackend,
                 backendConnected, now, detectPending, probeFailed>>
  /\ effectPending' = DepsChanged
  /\ scanRace' = [changed |-> scanRace.changed, applied |-> (outcome = "ok"),
                  fireBefore |-> IF outcome = "ok" THEN FireIds ELSE {}]
  /\ mounted /\ UNCHANGED mounted

\* a response that also resolves the alerts of the cameras it reports Normal
ScanDone_AutoResolve(outcome, result) ==
  /\ ~effectPending
  /\ scanPending > 0
  /\ scanPending' = scanPending - 1
  /\ cameras' = IF outcome = "ok" THEN ApplyScan(cameras, result) ELSE cameras
  /\ alerts' = IF outcome # "ok" THEN alerts
                ELSE [i \in DOMAIN alerts |->
                        IF /\ alerts[i].cameraId \in DOMAIN result
                           /\ result[alerts[i].cameraId][1] = "normal"
                          THEN [alerts[i] EXCEPT !.status = "resolved"]
                          ELSE alerts[i]]
  /\ useBackend' = IF outcome = "throw" THEN FALSE ELSE useBackend
  /\ UNCHANGED <<selectedAlert, responsesSent, simulationTime,
                 backendConnected, now, detectPending, probeFailed>>
  /\ effectPending' = DepsChanged
  /\ scanRace' = [changed |-> scanRace.changed, applied |-> (outcome = "ok"),
                  fireBefore |-> IF outcome = "ok" THEN FireIds ELSE {}]
  /\ mounted /\ UNCHANGED mounted

\* performBackendScan after its await
ScanDone(outcome, result) ==
  /\ ~effectPending
  /\ scanPending > 0
  /\ scanPending' = scanPending - 1
  /\ cameras' = IF outcome = "ok" THEN ApplyScan(cameras, result) ELSE cameras
  /\ useBackend' = IF outcome = "throw" THEN FALSE ELSE useBackend
  /\ UNCHANGED <<alerts, selectedAlert, responsesSent, simulationTime,
                 backendConnected, now, detectPending, probeFailed>>
  /\ effectPending' = DepsChanged
  /\ scanRace' = [changed |-> scanRace.changed, applied |-> (outcome = "ok"),
                  fireBefore |-> IF outcome = "ok" THEN FireIds ELSE {}]
  /\ mounted /\ UNCHANGED mounted

----------------------------------------------------------------------------
(* Alert detail *)

\* the alerts the dashboard and the alert panel offer for opening
ActiveAlerts(als) == {als[i] : i \in {j \in DOMAIN als : als[j].status = "active"}}

\* handleVideoViewerOpen up to its await
handleVideoViewerOpen(alert) ==
  /\ ~effectPending
  /\ alert \in ActiveAlerts(alerts)
  /\ IF backendConnected /\ useBackend
       THEN /\ scanPending + Cardinality(detectPending) < MaxInFlight
            /\ detectPending' = detectPending \cup {alert}
            /\ UNCHANGED selectedAlert
       ELSE /\ selectedAlert' = <<alert>>
            /\ UNCHANGED detectPending
  /\ UNCHANGED <<alerts, cameras, responsesSent, simulationTime, backendConnected,
                 useBackend, effectPending, now, scanPending,
                 probeFailed>>
  /\ NoteScanRace
  /\ mounted /\ UNCHANGED mounted

\* handleVideoViewerOpen after its await
DetectDone(alert, outcome, accuracy) ==
  /\ ~effectPending
  /\ alert \in detectPending
  /\ detectPending' = detectPending \ {alert}
  /\ selectedAlert' = IF outcome = "ok"
                        THEN <<[alert EXCEPT !.confidence = accuracy]>>
                        ELSE selectedAlert
  /\ UNCHANGED <<alerts, cameras, responsesSent, simulationTime, backendConnected,
                 useBackend, effectPending, now, scanPending,
                 probeFailed>>
  /\ NoteScanRace
  /\ mounted /\ UNCHANGED mounted

\* onClose={() => setSelectedAlert(null)}
CloseViewer ==
  /\ ~effectPending
  /\ selectedAlert # NoAlert
  /\ selectedAlert' = NoAlert
  /\ UNCHANGED <<alerts, cameras, responsesSent, simulationTime, backendConnected,
                 useBackend, effectPending, now, scanPending,
                 detectPending, probeFailed>>
  /\ NoteScanRace
  /\ mounted /\ UNCHANGED mounted

----------------------------------------------------------------------------
(* Teardown *)

\* the component is unmounted: the cleanups of the clock effect and of the
\* health probe effect clear their intervals, no effect runs and no state
\* update is taken any more
Unmount ==
  /\ mounted
  /\ mounted' = FALSE
  /\ UNCHANGED <<alerts, cameras, selectedAlert, responsesSent, simulationTime,
                 backendConnected, useBackend, effectPending, now, scanPending,
                 detectPending, probeFailed, scanRace>>

----------------------------------------------------------------------------
(* Resolution *)

\* a resolution that takes an id no alert has for "all alerts"
ResolveById_AllWhenUnknown(prev, alertId) ==
  [j \in DOMAIN prev |->
     IF prev[j].id = alertId \/ (\A k \in DOMAIN prev : prev[k].id # alertId)
       THEN [prev[j] EXCEPT !.status = "resolved"] ELSE prev[j]]

\* a resolution that drops the alert from the ledger
ResolveById_Delete(prev, alertId) ==
  SelectSeq(prev, LAMBDA a : a.id # alertId)

\* prev.map((alert) => (alert.id === alertId ? {...alert, status: "resolved"} : alert))
ResolveById(prev, alertId) ==
  [j \in DOMAIN prev |->
     IF prev[j].id = alertId THEN [prev[j] EXCEPT !.status = "resolved"] ELSE prev[j]]

\* a resolution that leaves the cameras as they are
ResetFireCameras_KeepsFire(prev) == prev

\* prev.map((camera) => (camera.status === "fire" ? {...camera, status: "normal", confidence: 0} : camera))
ResetFireCameras(prev) ==
  [j \in DOMAIN prev |->
     IF prev[j].status = "fire"
       THEN [prev[j] EXCEPT !.status = "normal", !.confidence = 0]
       ELSE prev[j]]

\* the camera reset narrowed to the cameras of the alerts with the given id
ResolveUpdates_OwnerOnly(alertId) ==
  /\ alerts' = ResolveById(alerts, alertId)
  /\ cameras' = [j \in DOMAIN cameras |->
                   IF /\ cameras[j].status = "fire"
                      /\ \E i \in DOMAIN alerts :
                            alerts[i].id = alertId /\ alerts[i].cameraId = cameras[j].id
                     THEN [cameras[j] EXCEPT !.status = "normal", !.confidence = 0]
                     ELSE cameras[j]]
  /\ selectedAlert' = NoAlert

\* the three state updates of handleResolveAlert
ResolveUpdates(alertId) ==
  /\ alerts' = ResolveById(alerts, alertId)
  /\ cameras' = ResetFireCameras(cameras)
  /\ selectedAlert' = NoAlert

\* the ids a resolve command may carry
AlertIds(als) == {als[i].id : i \in DOMAIN als}

\* handleResolveAlert as the alert panel's onResolveAlert (rendered while no
\* alert is selected)
handleResolveAlert(alertId) ==
  /\ ~effectPending
  /\ selectedAlert = NoAlert
  /\ ResolveUpdates(alertId)
  /\ UNCHANGED <<responsesSent, simulationTime, backendConnected, useBackend, now,
                 scanPending, detectPending, probeFailed>>
  /\ effectPending' = DepsChanged
  /\ NoteScanRace
  /\ mounted /\ UNCHANGED mounted

\* a response that is counted only for an alert that is still active
handleRequestResponse_ActiveOnly ==
  /\ ~effectPending
  /\ selectedAlert # NoAlert
  /\ responsesSent < MaxResponses
  /\ responsesSent' =
       IF \E i \in DOMAIN alerts :
            alerts[i].id = selectedAlert[1].id /\ alerts[i].status = "active"
         THEN responsesSent + 1 ELSE responsesSent
  /\ ResolveUpdates(selectedAlert[1].id)
  /\ UNCHANGED <<simulationTime, backendConnected, useBackend, now,
                 scanPending, detectPending, probeFailed>>
  /\ effectPending' = DepsChanged
  /\ NoteScanRace
  /\ mounted /\ UNCHANGED mounted

\* handleRequestResponse as the viewer's onRequestResponse, on the selected alert
handleRequestResponse ==
  /\ ~effectPending
  /\ selectedAlert # NoAlert
  /\ responsesSent < MaxResponses
  /\ responsesSent' = responsesSent + 1
  /\ ResolveUpdates(selectedAlert[1].id)
  /\ UNCHANGED <<simulationTime, backendConnected, useBackend, now,
                 scanPending, detectPending, probeFailed>>
  /\ effectPending' = DepsChanged
  /\ NoteScanRace
  /\ mounted /\ UNCHANGED mounted

----------------------------------------------------------------------------
(* Specifications *)

\* the state once the mount effects have run: the cameras are set, the clock
\* and the health probe run
InitWith(cams) ==
  /\ alerts = <<>>
  /\ cameras = cams
  /\ selectedAlert = NoAlert
  /\ responsesSent = 0
  /\ simulationTime = 0
  /\ backendConnected = FALSE
  /\ useBackend = TRUE
  /\ effectPending = FALSE
  /\ now = 0
  /\ scanPending = 0
  /\ detectPending = {}
  /\ probeFailed = FALSE
  /\ scanRace = NoRace
  /\ mounted = TRUE

Init == InitWith(initialCameras)

\* the clock, the health probe and the alert detail: no scan, no resolution
NextQuiet ==
  \/ FireWindowEffect
  \/ Tick
  \/ \E isHealthy \in BOOLEAN : checkBackend(isHealthy)
  \/ \E alert \in ActiveAlerts(alerts) : handleVideoViewerOpen(alert)
  \/ \E alert \in detectPending, outcome \in ServiceOutcomes :
        \E accuracy \in DetectAnswers(outcome) : DetectDone(alert, outcome, accuracy)
  \/ CloseViewer

\* every step but a resolution
NextNoResolve ==
  \/ NextQuiet
  \/ performBackendScan
  \/ \E outcome \in ServiceOutcomes : \E result \in ScanAnswers(outcome) :
        ScanDone(outcome, result)

Next ==
  \/ NextNoResolve
  \/ \E alertId \in AlertIds(alerts) \cup {UnknownId} : handleResolveAlert(alertId)
  \/ handleRequestResponse

Spec == Init /\ [][Next]_vars

\* the session in which the operator resolves nothing and requests no scan
SpecQuiet == Init /\ [][NextQuiet]_vars

\* the session of SpecQuiet with its teardown
NextTeardown == NextQuiet \/ Unmount

SpecTeardown == Init /\ [][NextTeardown]_vars

\* the simulation-only page (src/app/page.tsx): no service, no probe, no scan;
\* the effect always evaluates the fire windows and an alert is selected by
\* setSelectedAlert
NextSimulationOnly ==
  \/ FireWindowEffect
  \/ Tick
  \/ \E alert \in ActiveAlerts(alerts) : handleVideoViewerOpen(alert)
  \/ CloseViewer
  \/ \E alertId \in AlertIds(alerts) \cup {UnknownId} : handleResolveAlert(alertId)
  \/ handleRequestResponse

SpecSimulationOnly == Init /\ [][NextSimulationOnly]_vars

\* the sessions of the duplicate-window scenario
InitScenario == InitWith(scenarioCameras)

SpecScenario == InitScenario /\ [][Next]_vars

SpecScenarioNoResolve == InitScenario /\ [][NextNoResolve]_vars

----------------------------------------------------------------------------
(* Properties *)

CameraIndex(id) == CHOOSE i \in DOMAIN cameras : cameras[i].id = id

AlertsOf(id) == {i \in DOMAIN alerts : alerts[i].cameraId = id}

ActiveAlertsOf(id) == {i \in AlertsOf(id) : alerts[i].status = "active"}

\* C1: in every state reached once the effect has run, a camera has status
\* Fire if and only if the ledger holds an Active alert with its cameraId.
C1_FireIffActiveAlert ==
  ~effectPending =>
    \A i \in DOMAIN cameras :
      (cameras[i].status = "fire") <=> (ActiveAlertsOf(cameras[i].id) # {})

\* C2: in every reachable state, the ledger holds at most one Active alert
\* for each camera id.
C2_AtMostOneActivePerCamera ==
  \A i \in DOMAIN cameras : Cardinality(ActiveAlertsOf(cameras[i].id)) <= 1

\* a camera has a resolved alert and, raised after it, an active one
C2_Witness ==
  \E i, j \in DOMAIN alerts :
    /\ i < j /\ alerts[i].cameraId = alerts[j].cameraId
    /\ alerts[i].status = "active" /\ alerts[j].status = "resolved"


ScanFails == (performBackendScan /\ ~backendConnected) \/ ScanDone("throw", <<>>)

DetectFails == \E alert \in detectPending : DetectDone(alert, "throw", 0)

\* C5: the step in which an open-alert-detail command's detect call fails
\* leaves the orchestrator in Simulated mode.
C5_FailedDetectFallsBack == [][DetectFails => Simulated']_vars


\* a resolution command: resolveAlert(alertId), or requestResponse(alert)
ResolveCommand ==
  \/ \E alertId \in AlertIds(alerts) \cup {UnknownId} : handleResolveAlert(alertId)
  \/ handleRequestResponse

\* C6: a resolution command leaves every camera that was Fire at Normal with
\* confidence 0, whichever alert it names, and every camera that was Normal
\* as it was.
C6_ResolveResetsAllFireCameras ==
  [][ResolveCommand =>
       \A i \in DOMAIN cameras :
         /\ cameras[i].status = "fire" =>
              (cameras'[i].status = "normal" /\ cameras'[i].confidence = 0)
         /\ cameras[i].status = "normal" => cameras'[i] = cameras[i]]_vars

\* right after a resolution of cam-1's alert: cam-4, whose alert is still
\* Active, is back at Normal too
C6_Witness ==
  /\ effectPending
  /\ \A i \in DOMAIN cameras : cameras[i].status = "normal"
  /\ \E i \in AlertsOf("cam-1") : alerts[i].status = "resolved"
  /\ ActiveAlertsOf("cam-1") = {}
  /\ ActiveAlertsOf("cam-4") # {}

\* C7: requestResponse(alert) adds exactly 1 to the responses-sent counter and
\* leaves the alert with that id Resolved, also when it was Resolved already;
\* no step decreases the counter.
C7_RequestResponseCountsAndResolves ==
  [][/\ handleRequestResponse =>
          /\ responsesSent' = responsesSent + 1
          /\ \E i \in DOMAIN alerts' : alerts'[i].id = selectedAlert[1].id
          /\ \A i \in DOMAIN alerts' :
                alerts'[i].id = selectedAlert[1].id => alerts'[i].status = "resolved"
     /\ responsesSent' >= responsesSent]_vars

\* two responses were requested for the only alert of the ledger: the second
\* one for an alert that was Resolved already
C7_Witness ==
  Len(alerts) = 1 /\ alerts[1].status = "resolved" /\ responsesSent = 2

\* the alerts of an earlier state, found in the same order at the tail of now
SameOrderAtTail(before, after) ==
  /\ Len(after) >= Len(before)
  /\ \A i \in DOMAIN before :
       LET a == after[i + Len(after) - Len(before)]
       IN a.id = before[i].id /\ a.cameraId = before[i].cameraId
          /\ a.timestamp = before[i].timestamp

\* C8: the alert sequence is most-recent-first: creation times never increase
\* along it; every step keeps the alerts it found in their order and puts the
\* alerts it creates in front of them, the alert of a later camera of the
\* same pass before that of an earlier one.
C8_MostRecentFirst ==
  /\ [](\A i, j \in DOMAIN alerts : i < j => alerts[i].timestamp >= alerts[j].timestamp)
  /\ [][/\ SameOrderAtTail(alerts, alerts')
        /\ \A i, j \in 1 .. (Len(alerts') - Len(alerts)) :
              i < j => CameraIndex(alerts'[i].cameraId) > CameraIndex(alerts'[j].cameraId)
        /\ \A i \in 1 .. (Len(alerts') - Len(alerts)) :
              \A k \in DOMAIN alerts : alerts'[i].timestamp >= alerts[k].timestamp]_vars

\* one pass raised the alerts of cam-1 and then cam-2: the ledger is [cam-2, cam-1]
C8_Witness ==
  /\ Len(alerts) = 2
  /\ alerts[1].cameraId = "cam-2" /\ alerts[2].cameraId = "cam-1"
  /\ alerts[1].timestamp = alerts[2].timestamp

\* the scheduled offset of cam-1 that C9 is about
OffsetT == 15000

Cam1 == cameras[CameraIndex("cam-1")]

C10_OneAlertForOverlappingOffsets == Cardinality(AlertsOf("cam-1")) <= 1

\* the clock has ticked through both windows and cam-1 has its one alert
C10_Witness ==
  /\ Cam1.fireEventTimes = <<15000, 15800>>
  /\ simulationTime >= 18000
  /\ Cardinality(AlertsOf("cam-1")) = 1

\* C11: the step that applies a scan response leaves every camera that the
\* response does not mention exactly as it was right before the step, and
\* gives every camera it mentions the reported status and confidence.
C11_ScanLeavesAbsentCamerasAlone ==
  [][\A result \in ScanResults :
       ScanDone("ok", result) =>
         \A j \in DOMAIN cameras :
           IF cameras[j].id \in DOMAIN result
             THEN /\ cameras'[j].status = result[cameras[j].id][1]
                  /\ cameras'[j].confidence = result[cameras[j].id][2]
             ELSE cameras'[j] = cameras[j]]_vars

\* a response has just been applied: cam-4, which it does not mention, went to
\* Fire while the call was outstanding and is still Fire with its confidence
C11_Witness ==
  /\ scanRace.applied /\ "cam-4" \in scanRace.changed
  /\ cameras[CameraIndex("cam-4")].status = "fire"
  /\ cameras[CameraIndex("cam-4")].confidence \in SimConfidences

\* the entry of the next state's ledger that the i-th entry has become:
\* entries are counted from the tail, new ones are put in front
Successor(i) == alerts'[i + Len(alerts') - Len(alerts)]

\* C12: no step shortens the ledger, and an alert that is Resolved is the same
\* alert, still Resolved, after every step; so a later fire on its camera can
\* only show as a further entry of the ledger.
C12_ResolvedStaysResolved ==
  [][/\ Len(alerts') >= Len(alerts)
     /\ \A i \in DOMAIN alerts :
          alerts[i].status = "resolved" =>
            /\ Successor(i).status = "resolved"
            /\ Successor(i).cameraId = alerts[i].cameraId
            /\ Successor(i).timestamp = alerts[i].timestamp]_vars

\* cam-1 fired, its alert was resolved, and it fired again inside the same
\* window: the ledger holds the resolved alert and, in front of it, a new
\* active one
C12_Witness ==
  /\ Len(alerts) = 2
  /\ alerts[1].cameraId = "cam-1" /\ alerts[1].status = "active"
  /\ alerts[2].cameraId = "cam-1" /\ alerts[2].status = "resolved"
  /\ Cam1.status = "fire"

\* the ledger after a resolution of alertId, as C13 describes it: the same
\* entries, the ones with that id Resolved and otherwise as they were
OnlyStatusOf(alertId) ==
  /\ Len(alerts') = Len(alerts)
  /\ \A i \in DOMAIN alerts :
       alerts'[i] = IF alerts[i].id = alertId
                      THEN [alerts[i] EXCEPT !.status = "resolved"]
                      ELSE alerts[i]

\* C13: no step removes an entry of the ledger or changes a field of an entry
\* other than its status, and a resolution changes nothing but the status of
\* the alert with the given id.
C13_LedgerKeepsEveryEntry ==
  [][/\ Len(alerts') >= Len(alerts)
     /\ \A i \in DOMAIN alerts :
          Successor(i) = [alerts[i] EXCEPT !.status = Successor(i).status]
     /\ \A alertId \in AlertIds(alerts) \cup {UnknownId} :
          handleResolveAlert(alertId) => OnlyStatusOf(alertId)
     /\ handleRequestResponse => OnlyStatusOf(selectedAlert[1].id)]_vars

\* right after the resolution of cam-1's alert: it is in the ledger with its
\* id, time and confidence, behind cam-4's alert, which is untouched
C13_Witness ==
  /\ effectPending /\ selectedAlert = NoAlert
  /\ Len(alerts) = 2
  /\ alerts[1].cameraId = "cam-4" /\ alerts[1].status = "active"
  /\ alerts[2].cameraId = "cam-1" /\ alerts[2].status = "resolved"
  /\ alerts[2].id = <<alerts[2].timestamp, "cam-1">>
  /\ alerts[2].confidence \in SimConfidences

\* C14 as claimed: a step that takes a camera from Fire to Normal is a
\* resolution command.
C14_FireToNormalOnlyByResolution ==
  [][\A j \in DOMAIN cameras :
       (cameras[j].status = "fire" /\ cameras'[j].status = "normal") => ResolveCommand]_vars

\* C14 as amended: a step that takes a camera out of Fire is a resolution
\* command or the application of a scan response that mentions the camera; no
\* clock tick, health probe, detect result or pass of the effect does it.
C14_FireLeftOnlyByResolutionOrScan ==
  [][\A j \in DOMAIN cameras :
       (cameras[j].status = "fire" /\ cameras'[j].status # "fire") =>
          \/ ResolveCommand
          \/ \E result \in ScanResults :
                ScanDone("ok", result) /\ cameras[j].id \in DOMAIN result]_vars

\* a scan response has just taken cam-1 from Fire to Normal
C14_Witness ==
  /\ scanRace.applied /\ "cam-1" \in scanRace.fireBefore
  /\ Cam1.status = "normal"

\* C15: one evaluation path at a time.  While the mode is Service-backed, a
\* clock tick and the pass of the effect that follows it create no alert and
\* change no camera; while the mode is Simulated, no scan call is sent to the
\* service and no scan response is applied.
C15_OneEvaluationPath ==
  [][/\ (~Simulated /\ (Tick \/ FireWindowEffect)) => UNCHANGED <<cameras, alerts>>
     /\ (Simulated /\ performBackendScan) => UNCHANGED scanPending
     /\ (Simulated /\ \E result \in ScanResults : ScanDone("ok", result))
          => UNCHANGED cameras]_vars

\* C16: the step that ends a scan call leaves the ledger as it is, and an
\* Active alert stops being Active only by a resolution command.
C16_ScanLeavesLedgerAlone ==
  [][/\ (\E outcome \in ServiceOutcomes : \E result \in ScanAnswers(outcome) :
            ScanDone(outcome, result)) => alerts' = alerts
     /\ \A i \in DOMAIN alerts :
          (alerts[i].status = "active" /\ Successor(i).status # "active")
             => ResolveCommand]_vars

\* a scan response has just reported Normal for cam-1, which was Fire: its
\* alert is still Active
C16_Witness ==
  /\ scanRace.applied /\ "cam-1" \in scanRace.fireBefore
  /\ Cam1.status = "normal" /\ Cam1.confidence \in ScanConfidences
  /\ Cardinality(ActiveAlertsOf("cam-1")) = 1

\* alertId names no Active alert: the alerts with that id are Resolved, or
\* there is none
NamesNoActiveAlert(alertId) ==
  \A i \in DOMAIN alerts : alerts[i].id = alertId => alerts[i].status = "resolved"

\* C17: a resolution with an id whose alert is Resolved already, or with an id
\* that no alert has, can always be carried out and leaves the ledger as it is.
C17_ResolveOfResolvedOrUnknownKeepsLedger ==
  /\ []((~effectPending /\ selectedAlert = NoAlert) =>
          \A alertId \in AlertIds(alerts) \cup {UnknownId} :
             ENABLED handleResolveAlert(alertId))
  /\ [][/\ \A alertId \in AlertIds(alerts) \cup {UnknownId} :
              (handleResolveAlert(alertId) /\ NamesNoActiveAlert(alertId))
                 => alerts' = alerts
        /\ (handleRequestResponse /\ NamesNoActiveAlert(selectedAlert[1].id))
              => alerts' = alerts]_vars

\* a resolution has named an id other than that of the only alert, which is
\* cam-1's: the cameras were reset, the alert is Active as before
C17_Witness ==
  /\ Len(alerts) = 1
  /\ alerts[1].cameraId = "cam-1" /\ alerts[1].status = "active"
  /\ Cam1.status = "normal" /\ Cam1.confidence = 0

\* C18: a resolution with an id that no alert has leaves the cameras, the
\* ledger, the selected alert and the responses-sent counter as they are.
C18_ResolveOfUnknownIsNoOp ==
  [][handleResolveAlert(UnknownId) =>
       UNCHANGED <<cameras, alerts, selectedAlert, responsesSent>>]_vars

\* C19: in every state, every camera whose status is Normal has confidence 0.
C19_NormalHasZeroConfidence ==
  \A j \in DOMAIN cameras : cameras[j].status = "normal" => cameras[j].confidence = 0

\* C20: any two entries of the ledger have different ids.
C20_AlertIdsAreDistinct ==
  \A i, j \in DOMAIN alerts : i # j => alerts[i].id # alerts[j].id

\* C21: simulation time starts at 0; a clock tick adds exactly 1000 to it; no
\* step decreases it; and a step that changes it is a clock tick.
C21_SimulationTimeFollowsTheClock ==
  /\ simulationTime = 0
  /\ [][/\ Tick => simulationTime' = simulationTime + TickMs
        /\ simulationTime' >= simulationTime
        /\ simulationTime' # simulationTime => Tick]_vars

\* three ticks into a session in which a probe has failed and a scan command
\* has cleared the prefer-service flag
C21_Witness ==
  /\ simulationTime = 3 * TickMs
  /\ probeFailed /\ ~useBackend

\* the alerts of a camera created within the tolerance of one of its offsets
AlertsOnAccountOf(camera, offset) ==
  {i \in AlertsOf(camera.id) : Abs(alerts[i].timestamp - offset) < Tolerance}

\* C22: for every camera and every scheduled offset of it, the ledger holds at
\* most one alert created on account of that offset.
C22_OneAlertPerOffset ==
  \A j \in DOMAIN cameras : \A k \in DOMAIN cameras[j].fireEventTimes :
     Cardinality(AlertsOnAccountOf(cameras[j], cameras[j].fireEventTimes[k])) <= 1

\* the ledger of the next state holds alert a with the status a shows
CurrentInLedger(a) ==
  \E i \in DOMAIN alerts' : alerts'[i].id = a.id /\ alerts'[i].status = a.status

\* C23: the alert that a completed detect call selects has the status it has
\* in the ledger, and a response is only ever requested for an alert that is
\* Active in the ledger.
C23_DetectSelectsLatestAlert ==
  [][/\ (\E alert \in detectPending : \E accuracy \in DetectAccuracies :
             DetectDone(alert, "ok", accuracy))
          => CurrentInLedger(selectedAlert'[1])
     /\ handleRequestResponse =>
          \E i \in DOMAIN alerts :
             alerts[i].id = selectedAlert[1].id /\ alerts[i].status = "active"]_vars

\* C24: in every state, scan responses applied or not, the status of every
\* camera is Normal or Fire.
C24_StatusIsNormalOrFire ==
  \A j \in DOMAIN cameras : cameras[j].status \in {"normal", "fire"}

\* C25: once the component is torn down it stays torn down, and from then
\* on no step is a clock tick or a health probe: simulation time and the
\* service-reachable flag stay as they are, and neither timer can fire.
C25_TimersStopOnTeardown ==
  /\ [](~mounted => (~ENABLED Tick /\ \A isHealthy \in BOOLEAN : ~ENABLED checkBackend(isHealthy)))
  /\ [][~mounted => /\ ~mounted'
                    /\ simulationTime' = simulationTime
                    /\ backendConnected' = backendConnected
                    /\ probeFailed' = probeFailed]_vars

\* torn down two ticks into the session, with no effect pending: only the
\* cleared interval keeps the clock from ticking
C25_Witness ==
  /\ ~mounted /\ ~effectPending
  /\ simulationTime = 2 * TickMs

\* the alerts that the step puts in front of the ledger
NewAlerts == {alerts'[i] : i \in 1 .. (Len(alerts') - Len(alerts))}

\* C26: on the simulation-only page, every camera that is Fire has an Active
\* alert in every state; a step that sets a camera to Fire creates, in that
\* step, an Active alert of that camera with the camera's confidence, and an
\* alert is only created for a camera that the step sets to Fire.
C26_FireHasActiveAlert ==
  /\ [](\A j \in DOMAIN cameras :
          cameras[j].status = "fire" => ActiveAlertsOf(cameras[j].id) # {})
  /\ [][/\ \A j \in DOMAIN cameras :
              (cameras[j].status # "fire" /\ cameras'[j].status = "fire") =>
                 \E a \in NewAlerts :
                    /\ a.cameraId = cameras[j].id /\ a.status = "active"
                    /\ a.confidence = cameras'[j].confidence
        /\ \A a \in NewAlerts :
              \E j \in DOMAIN cameras :
                 /\ cameras[j].id = a.cameraId
                 /\ cameras[j].status # "fire" /\ cameras'[j].status = "fire"]_vars

\* a response was requested for cam-1's first alert inside its window, cam-1
\* fired again and is Fire with its second alert and that alert's confidence
C26_Witness ==
  /\ ~backendConnected /\ useBackend /\ ~probeFailed
  /\ responsesSent = 1
  /\ Len(alerts) = 2 /\ alerts[2].status = "resolved"
  /\ alerts[1].cameraId = "cam-1" /\ alerts[1].status = "active"
  /\ Cam1.status = "fire" /\ Cam1.confidence = alerts[1].confidence

\* C27: an open-alert-detail command selects its alert: in Simulated mode in
\* the step of the command, in Service-backed mode in the step in which the
\* detect call returns, however it ends.
C27_OpenedAlertGetsSelected ==
  [][/\ \A alert \in ActiveAlerts(alerts) :
          (Simulated /\ handleVideoViewerOpen(alert)) => selectedAlert' = <<alert>>
     /\ \A alert \in detectPending : \A outcome \in ServiceOutcomes :
          \A accuracy \in DetectAnswers(outcome) :
             DetectDone(alert, outcome, accuracy) =>
                (selectedAlert' # NoAlert /\ selectedAlert'[1].id = alert.id)]_vars

====
